---------------------------- MODULE Spec2Model ----------------------------
(***************************************************************************)
(* CV matching backend: search projects with weighted criteria, project    *)
(* CVs with optional parsed data, the matching run that scores and ranks   *)
(* them, and the criteria-change invalidation.                             *)
(*                                                                         *)
(* Encodings.                                                              *)
(*  - A nullable / optional value is a sequence of length <= 1: Null is    *)
(*    the empty sequence, Some(x) is <<x>>.                                *)
(*  - A string is a sequence of one-character strings; an array is a       *)
(*    sequence.                                                            *)
(*  - A JavaScript number computed by the scorers is an exact rational     *)
(*    <<n, d>> with d > 0; the IEEE results of dividing by zero are        *)
(*    written out case by case where the code divides.  NaNQ is 0/0.       *)
(*  - A final score (two decimals) is an integer number of hundredths,     *)
(*    or NaN.                                                              *)
(***************************************************************************)
EXTENDS Integers, Sequences, FiniteSets, TLC

Null == <<>>

Some(x) == <<x>>

\* IEEE NaN in the domain of final scores (hundredths are never negative).
NaN == -1

\* 0/0 in the domain of rationals.
NaNQ == <<0, 0>>

Range(s) == {s[i] : i \in 1..Len(s)}

Max2(a, b) == IF a >= b THEN a ELSE b

(***************************************************************************)
(* Exact rational arithmetic standing for the double arithmetic.           *)
(***************************************************************************)
RLess(a, b) == a[1] * b[2] < b[1] * a[2]

RMax(a, b) == IF RLess(a, b) THEN b ELSE a

RMin(a, b) == IF RLess(b, a) THEN b ELSE a

RAdd(a, b) == <<a[1] * b[2] + b[1] * a[2], a[2] * b[2]>>

RMulInt(k, a) == <<k * a[1], a[2]>>

RDivInt(a, k) == <<a[1], a[2] * k>>

\* x > t/10 for a rational x, as the code's comparisons with 0.3, 0.6, 0.7
RAboveTenths(x, t) == 10 * x[1] > t * x[2]

\* x === 1.0
RIsOne(x) == x[1] = x[2]

\* Math.round(x): the nearest integer, halves rounded up (x >= 0 here)
MathRound(x) == (2 * x[1] + x[2]) \div (2 * x[2])

(***************************************************************************)
(* Strings: toLowerCase, trim, split(/\s+/).                               *)
(***************************************************************************)
IsSpace(c) == c = " "

toLowerCase(c) ==
    CASE c = "J" -> "j"
      [] c = "S" -> "s"
      [] c = "G" -> "g"
      [] c = "O" -> "o"
      [] OTHER -> c

RECURSIVE TrimStart(_)
TrimStart(s) ==
    IF s = <<>> THEN s
    ELSE IF IsSpace(Head(s)) THEN TrimStart(Tail(s))
    ELSE s

RECURSIVE TrimEnd(_)
TrimEnd(s) ==
    IF s = <<>> THEN s
    ELSE IF IsSpace(s[Len(s)]) THEN TrimEnd(SubSeq(s, 1, Len(s) - 1))
    ELSE s

\* const normalize = (str) => str.toLowerCase().trim()
normalize(str) == TrimEnd(TrimStart([i \in 1..Len(str) |-> toLowerCase(str[i])]))

\* s.split(/\s+/): the pieces between maximal runs of white space; a string
\* without white space (the empty string too) is a single piece.
RECURSIVE SplitFrom(_, _, _)
SplitFrom(s, i, cur) ==
    IF i > Len(s) THEN <<cur>>
    ELSE IF IsSpace(s[i])
         THEN IF i > 1 /\ IsSpace(s[i - 1])
              THEN SplitFrom(s, i + 1, cur)
              ELSE <<cur>> \o SplitFrom(s, i + 1, <<>>)
         ELSE SplitFrom(s, i + 1, Append(cur, s[i]))

SplitWs(s) == SplitFrom(s, 1, <<>>)

calculateSemanticSimilarity(text1, text2) ==
    IF text1 = <<>> \/ text2 = <<>> THEN <<0, 1>>
    ELSE LET words1 == SplitWs(normalize(text1))
             words2 == SplitWs(normalize(text2))
         IN  IF normalize(text1) = normalize(text2) THEN <<1, 1>>
             ELSE LET commonWords == {i \in 1..Len(words1) : words1[i] \in Range(words2)}
                      totalWords  == Cardinality(Range(words1) \cup Range(words2))
                  IN  <<Cardinality(commonWords), Max2(totalWords, 1)>>

(***************************************************************************)
(* Dimension scorers.  Numbers of years and of job changes are             *)
(* non-negative integers (job changes counted in tenths per year: the      *)
(* code only compares them and takes ratios).                              *)
(***************************************************************************)
calculateExperienceScore(actualYears, requiredYears) ==
    IF requiredYears = Null \/ actualYears = Null THEN <<50, 1>>
    ELSE LET a == actualYears[1]
             r == requiredYears[1]
         IN  IF a >= r
             THEN IF r = 0
                  THEN \* (a - 0) / 0 * 20: NaN for a = 0, +Infinity for a > 0;
                       \* Math.min(NaN, 20) = NaN, Math.min(Infinity, 20) = 20
                       IF a = 0 THEN NaNQ ELSE <<100, 1>>
                  ELSE LET bonus == RMin(<<(a - r) * 20, r>>, <<20, 1>>)
                       IN  RMin(<<100, 1>>, RAdd(<<80, 1>>, bonus))
             ELSE RMax(<<0, 1>>, <<a * 80, r>>)

RECURSIVE RoleLoop(_, _, _, _)
RoleLoop(targetRole, cvRoles, k, acc) ==
    IF k > Len(cvRoles) THEN acc
    ELSE LET similarity == calculateSemanticSimilarity(targetRole, cvRoles[k])
         IN  IF RAboveTenths(similarity, 3)
             THEN RoleLoop(targetRole, cvRoles, k + 1,
                           [score   |-> RMax(acc.score, RMulInt(100, similarity)),
                            matches |-> Append(acc.matches, cvRoles[k])])
             ELSE RoleLoop(targetRole, cvRoles, k + 1, acc)

calculateRoleScore(targetRole, cvRoles) ==
    IF targetRole = Null \/ targetRole = Some(<<>>) \/ cvRoles = <<>>
    THEN [score |-> <<0, 1>>, matches |-> <<>>]
    ELSE RoleLoop(targetRole[1], cvRoles, 1, [score |-> <<0, 1>>, matches |-> <<>>])

\* The inner loop over the candidate's skills for one target skill.
\* acc: bestMatch, the exact-match flag (set at the break), the semantic
\* pairs met before the break.
RECURSIVE SkillScan(_, _, _, _, _)
SkillScan(skill, cvSkills, j, weight, acc) ==
    IF j > Len(cvSkills) THEN acc
    ELSE LET similarity == calculateSemanticSimilarity(skill, cvSkills[j])
         IN  IF RIsOne(similarity)
             THEN [acc EXCEPT !.bestMatch = <<weight, 1>>, !.exact = TRUE]
             ELSE IF RAboveTenths(similarity, 7)
             THEN SkillScan(skill, cvSkills, j + 1, weight,
                            [acc EXCEPT !.bestMatch = RMax(@, RMulInt(weight, similarity)),
                                        !.semantic = Append(@, <<skill, cvSkills[j]>>)])
             ELSE SkillScan(skill, cvSkills, j + 1, weight, acc)

ScanStart == [bestMatch |-> <<0, 1>>, exact |-> FALSE, semantic |-> <<>>]

\* push each element of xs that the list does not yet include
RECURSIVE PushNew(_, _)
PushNew(list, xs) ==
    IF xs = <<>> THEN list
    ELSE PushNew(IF Head(xs) \in Range(list) THEN list ELSE Append(list, Head(xs)), Tail(xs))

\* Score required skills (weight: 2)
RECURSIVE RequiredLoop(_, _, _, _)
RequiredLoop(requiredSkills, cvSkills, k, st) ==
    IF k > Len(requiredSkills) THEN st
    ELSE LET scan == SkillScan(requiredSkills[k], cvSkills, 1, 2, ScanStart)
         IN  RequiredLoop(requiredSkills, cvSkills, k + 1,
                 [totalScore       |-> RAdd(st.totalScore, scan.bestMatch),
                  maxPossibleScore |-> st.maxPossibleScore + 2,
                  exactMatches     |-> IF scan.exact
                                       THEN Append(st.exactMatches, requiredSkills[k])
                                       ELSE st.exactMatches,
                  semanticMatches  |-> st.semanticMatches \o scan.semantic])

\* Score preferred skills (weight: 1)
RECURSIVE PreferredLoop(_, _, _, _)
PreferredLoop(preferredSkills, cvSkills, k, st) ==
    IF k > Len(preferredSkills) THEN st
    ELSE LET scan == SkillScan(preferredSkills[k], cvSkills, 1, 1, ScanStart)
         IN  PreferredLoop(preferredSkills, cvSkills, k + 1,
                 [totalScore       |-> RAdd(st.totalScore, scan.bestMatch),
                  maxPossibleScore |-> st.maxPossibleScore + 1,
                  exactMatches     |-> IF scan.exact
                                       THEN PushNew(st.exactMatches, <<preferredSkills[k]>>)
                                       ELSE st.exactMatches,
                  semanticMatches  |-> PushNew(st.semanticMatches, scan.semantic)])

calculateSkillsScore(requiredSkills, preferredSkills, cvSkills) ==
    IF cvSkills = <<>>
    THEN [score |-> <<0, 1>>, exact_matches |-> <<>>, semantic_matches |-> <<>>]
    ELSE LET start == [totalScore |-> <<0, 1>>, maxPossibleScore |-> 0,
                       exactMatches |-> <<>>, semanticMatches |-> <<>>]
             req   == RequiredLoop(requiredSkills, cvSkills, 1, start)
             st    == PreferredLoop(preferredSkills, cvSkills, 1, req)
         IN  [score            |-> IF st.maxPossibleScore > 0
                                   THEN RMulInt(100, RDivInt(st.totalScore, st.maxPossibleScore))
                                   ELSE <<0, 1>>,
              exact_matches    |-> st.exactMatches,
              semantic_matches |-> st.semanticMatches]

\* the inner loop of calculateIndustryScore: the first candidate industry
\* of strictly greatest similarity
RECURSIVE BestIndustry(_, _, _, _)
BestIndustry(targetIndustry, cvIndustries, j, acc) ==
    IF j > Len(cvIndustries) THEN acc
    ELSE LET similarity == calculateSemanticSimilarity(targetIndustry, cvIndustries[j])
         IN  BestIndustry(targetIndustry, cvIndustries, j + 1,
                 IF RLess(acc.bestMatch, similarity)
                 THEN [bestMatch |-> similarity, bestMatchIndustry |-> cvIndustries[j]]
                 ELSE acc)

RECURSIVE IndustryLoop(_, _, _, _)
IndustryLoop(targetIndustries, cvIndustries, k, st) ==
    IF k > Len(targetIndustries) THEN st
    ELSE LET best == BestIndustry(targetIndustries[k], cvIndustries, 1,
                                  [bestMatch |-> <<0, 1>>, bestMatchIndustry |-> <<>>])
         IN  IndustryLoop(targetIndustries, cvIndustries, k + 1,
                 IF RAboveTenths(best.bestMatch, 6)
                 THEN [totalSimilarity |-> RAdd(st.totalSimilarity, best.bestMatch),
                       matches         |-> Append(st.matches, best.bestMatchIndustry)]
                 ELSE st)

calculateIndustryScore(targetIndustries, cvIndustries) ==
    IF targetIndustries = <<>> \/ cvIndustries = <<>>
    THEN [score |-> <<0, 1>>, matches |-> <<>>]
    ELSE LET st == IndustryLoop(targetIndustries, cvIndustries, 1,
                                [totalSimilarity |-> <<0, 1>>, matches |-> <<>>])
         IN  [score   |-> RMulInt(100, RDivInt(st.totalSimilarity, Len(targetIndustries))),
              matches |-> st.matches]

\* Variant: the penalty is not floored at 0.
calculateJobStabilityScore_NoFloor(jobChangesPerYear, maxJobChangesPerYear) ==
    IF maxJobChangesPerYear = Null \/ jobChangesPerYear = Null THEN <<50, 1>>
    ELSE LET j == jobChangesPerYear[1]
             m == maxJobChangesPerYear[1]
         IN  IF j <= m THEN <<100, 1>>
             ELSE IF m = 0 THEN <<0, 1>>
             ELSE <<100 * m - 50 * (j - m), m>>

calculateJobStabilityScore(jobChangesPerYear, maxJobChangesPerYear) ==
    IF maxJobChangesPerYear = Null \/ jobChangesPerYear = Null THEN <<50, 1>>
    ELSE LET j == jobChangesPerYear[1]
             m == maxJobChangesPerYear[1]
         IN  IF j <= m THEN <<100, 1>>
             ELSE IF m = 0
                  THEN \* (j - 0) / 0 = +Infinity; Math.max(0, 100 - Infinity) = 0
                       <<0, 1>>
                  ELSE \* 100 - ((j - m) / m) * 50, floored at 0
                       IF 50 * (j - m) >= 100 * m THEN <<0, 1>>
                       ELSE <<100 * m - 50 * (j - m), m>>

\* x || []
OrEmpty(x) == IF x = Null THEN <<>> ELSE x[1]

\* Calculate scores for each dimension
DimensionScores(criteria, parsedData) ==
    [experienceScore   |-> calculateExperienceScore(parsedData.total_years_experience,
                                                    criteria.minimum_years_experience),
     roleMatch         |-> calculateRoleScore(criteria.target_role,
                                              OrEmpty(parsedData.roles_positions)),
     skillsMatch       |-> calculateSkillsScore(criteria.required_skills,
                                                criteria.preferred_skills,
                                                OrEmpty(parsedData.skills)),
     industryMatch     |-> calculateIndustryScore(criteria.target_industries,
                                                  OrEmpty(parsedData.dominant_industries)),
     jobStabilityScore |-> calculateJobStabilityScore(parsedData.job_changes_frequency,
                                                      criteria.max_job_changes_per_year)]

\* The weighted final score of one CV, rounded to two decimals, in hundredths:
\* Math.round(finalScore * 100) / 100.  NaN in a term makes the sum NaN.
WeightedScore(weights, d) ==
    IF d.experienceScore = NaNQ THEN NaN
    ELSE MathRound(
           RAdd(RMulInt(weights.years_experience, d.experienceScore),
           RAdd(RMulInt(weights.role_match, d.roleMatch.score),
           RAdd(RMulInt(weights.skills_match, d.skillsMatch.score),
           RAdd(RMulInt(weights.industry_match, d.industryMatch.score),
                RMulInt(weights.job_stability, d.jobStabilityScore))))))

FinalScore(criteria, parsedData) ==
    WeightedScore(criteria.weights, DimensionScores(criteria, parsedData))


(***************************************************************************)
(* Inputs.  employment_history, contact_info and education are carried by  *)
(* the parsed data but never read by the scorers; they are left out.       *)
(***************************************************************************)
sJs == <<"j", "s">>

sJS == <<"J", "S">>

sGo == <<"g", "o">>

sJsGo == <<"j", "s", " ", "g", "o">>

CritA ==
    [minimum_years_experience |-> Some(2),
     target_role              |-> Some(sJsGo),
     required_skills          |-> <<sJs>>,
     preferred_skills         |-> <<sGo>>,
     target_industries        |-> <<sGo>>,
     max_job_changes_per_year |-> Some(5),
     weights |-> [years_experience |-> 25, role_match |-> 25, skills_match |-> 30,
                  industry_match |-> 10, job_stability |-> 10]]

CritB ==
    [minimum_years_experience |-> Some(0),
     target_role              |-> Null,
     required_skills          |-> <<sGo>>,
     preferred_skills         |-> <<>>,
     target_industries        |-> <<>>,
     max_job_changes_per_year |-> Some(0),
     weights |-> [years_experience |-> 40, role_match |-> 10, skills_match |-> 30,
                  industry_match |-> 10, job_stability |-> 10]]

CriteriaInputs == {CritA, CritB}

\* weights that pass the schema (each in 0..100) and sum to 110
WeightsOver ==
    [years_experience |-> 25, role_match |-> 25, skills_match |-> 30,
     industry_match |-> 10, job_stability |-> 20]

CritOver == [CritA EXCEPT !.weights = WeightsOver]

ParsedSenior ==
    [total_years_experience |-> Some(4),
     job_changes_frequency  |-> Some(2),
     roles_positions        |-> Some(<<sJsGo>>),
     skills                 |-> Some(<<sJS, sGo>>),
     dominant_industries    |-> Some(<<sGo>>)]

ParsedGraduate ==
    [total_years_experience |-> Some(0),
     job_changes_frequency  |-> Some(0),
     roles_positions        |-> Null,
     skills                 |-> Some(<<sJs>>),
     dominant_industries    |-> Null]

ParsedInputs == {ParsedSenior, ParsedGraduate}

ParsedJunior ==
    [total_years_experience |-> Some(1),
     job_changes_frequency  |-> Some(0),
     roles_positions        |-> Null,
     skills                 |-> Some(<<sJs>>),
     dominant_industries    |-> Null]

(***************************************************************************)
(* Inputs of the scoring of one CV: every combination of years, of job     *)
(* changes and of a profile of roles, skills and industries, null fields,  *)
(* empty arrays, zeros and a role with a repeated word among them.         *)
(***************************************************************************)
MaxRequiredYears == 3

MaxYears == 5

MaxAllowedChanges == 2

MaxChanges == 6

sJsJs == <<"j", "s", " ", "j", "s">>

NullableUpTo(n) == {Null} \cup {Some(k) : k \in 0..n}

CriteriaProfiles ==
    {[target_role |-> Null, required_skills |-> <<>>, preferred_skills |-> <<>>,
      target_industries |-> <<>>, weights |-> CritB.weights],
     [target_role |-> Some(sJs), required_skills |-> <<sJs>>, preferred_skills |-> <<sGo>>,
      target_industries |-> <<sGo>>, weights |-> CritA.weights],
     [target_role |-> Some(sJsJs), required_skills |-> <<sJs, sGo>>, preferred_skills |-> <<>>,
      target_industries |-> <<sJsGo>>, weights |-> CritA.weights]}

ScoreCriteriaInputs ==
    {[minimum_years_experience |-> y,
      target_role              |-> p.target_role,
      required_skills          |-> p.required_skills,
      preferred_skills         |-> p.preferred_skills,
      target_industries        |-> p.target_industries,
      max_job_changes_per_year |-> m,
      weights                  |-> p.weights] :
        y \in NullableUpTo(MaxRequiredYears), m \in NullableUpTo(MaxAllowedChanges),
        p \in CriteriaProfiles}

ParsedProfiles ==
    {[roles_positions |-> Null, skills |-> Null, dominant_industries |-> Null],
     [roles_positions |-> Some(<<sJs>>), skills |-> Some(<<sJS, sGo>>),
      dominant_industries |-> Some(<<sGo>>)],
     [roles_positions |-> Some(<<sJsGo, sGo>>), skills |-> Some(<<>>),
      dominant_industries |-> Some(<<sJs, sJsGo>>)]}

ScoreParsedInputs ==
    {[total_years_experience |-> y,
      job_changes_frequency  |-> j,
      roles_positions        |-> p.roles_positions,
      skills                 |-> p.skills,
      dominant_industries    |-> p.dominant_industries] :
        y \in NullableUpTo(MaxYears), j \in NullableUpTo(MaxChanges), p \in ParsedProfiles}


(***************************************************************************)
(* Bounds of the model.                                                    *)
(***************************************************************************)
MaxProjects == 1

MaxRows == 2

\* Rows of project_cvs in the specification of the per-project limit.
MaxLimitRows == 12

\* Rows of cvs.
MaxCvRows == 4

\* Project CVs of the project in the specification of the tie-break.
MaxTieRows == 4

\* Project CVs of the project when the overlapping createProjectCV calls
\* start, and rows of project_cvs in their specification.
BatchStartRows == 8

MaxBatchRows == 12

\* The limit createProjectCV enforces per project.
MaxCvsPerProject == 10

\* The two callers of runMatchingAlgorithm whose calls may overlap.
Runners == {"A", "B"}

\* Ids a caller may pass: the largest is never the id of a stored project.
ProjectIdInputs == 1..(MaxProjects + 1)

\* The users table: a job provider and a job seeker.
usersTable == <<[id |-> 1, role |-> "JOB_PROVIDER"], [id |-> 2, role |-> "JOB_SEEKER"]>>

UserIdInputs == 1..(Len(usersTable) + 1)

(***************************************************************************)
(* State.  The tables assign serial ids, so a table is a sequence and a    *)
(* row's id is its index; rows are never deleted.                          *)
(***************************************************************************)
VARIABLES
    projects,     \* search_projects: [id, created_by_user_id, name, criteria]
    projectCvs,   \* project_cvs: [id, project_id, parsed_data, score, ranking]
    run,          \* per caller, the runMatchingAlgorithm call in progress or last finished
    upd,          \* the updateSearchProject call in progress or last finished
    cvRet,        \* the outcome of the last createProjectCV call: [project_id, error]
    cvsTable,     \* cvs: [id, user_id, status]
    calc,         \* the scoring of one CV against one criteria: inputs and scores
    upload,       \* the client's handleUploadCVs call in progress or last finished
    rerun,        \* the rerunMatchingWithNewWeights call in progress
    calls         \* per caller, the createProjectCV, createCV or updateCVStatus call
                  \* in progress or last finished, statement by statement

vars == <<projects, projectCvs, run, upd, cvRet, cvsTable, calc, upload, rerun, calls>>

IdleRun == [pc |-> "idle", project_id |-> 0, project |-> Null, projectCvs |-> <<>>,
            results |-> <<>>, written |-> 0, ret |-> Null, error |-> Null]

IdleUpd == [pc |-> "idle", input |-> Null]

IdleCalc == [pc |-> "idle"]

IdleUpload == [pc |-> "idle", project_id |-> 0, files |-> 0, newCVs |-> <<>>,
               parsed |-> 0, parseError |-> FALSE, matched |-> FALSE]

IdleRerun == [pc |-> "idle", project_id |-> 0]

Callers == {"a", "b", "c"}

IdleCall == [pc |-> "idle"]

\* the part of the state the search-project and matching handlers never touch
Idle ==
    /\ cvRet = Null
    /\ cvsTable = <<>>
    /\ calc = IdleCalc
    /\ upload = IdleUpload
    /\ rerun = IdleRerun
    /\ calls = [c \in Callers |-> IdleCall]

Init ==
    /\ projects = <<>>
    /\ projectCvs = <<>>
    /\ run = [r \in Runners |-> IdleRun]
    /\ upd = IdleUpd
    /\ Idle

\* Variant: the where clause is lost and every row is returned.
SelectById_NoWhere(table, id) == {i \in 1..Len(table) : TRUE}

\* db.select().from(table).where(eq(table.id, id))
SelectById(table, id) == {i \in 1..Len(table) : table[i].id = id}

\* rows[0] of a select: the first row returned
First(found) == CHOOSE i \in found : \A j \in found : i <= j

\* Variant: the count is taken over the whole table.
CvsOfProject_AnyProject(rows, pid) == {i \in 1..Len(rows) : TRUE}

\* the ids of the project_cvs rows with the given project_id
CvsOfProject(rows, pid) == {i \in 1..Len(rows) : rows[i].project_id = pid}

(***************************************************************************)
(* createSearchProject                                                     *)
(***************************************************************************)
WeightsTotal(weights) ==
    weights.years_experience + weights.role_match + weights.skills_match
        + weights.industry_match + weights.job_stability

CreateSearchProject(userId, name, criteria) ==
    /\ Len(projects) < MaxProjects
    /\ SelectById(usersTable, userId) # {}
    /\ usersTable[First(SelectById(usersTable, userId))].role
           \in {"JOB_PROVIDER", "TALENT_ACQUISITION"}
    /\ WeightsTotal(criteria.weights) = 100
    /\ projects' = Append(projects,
                          [id |-> Len(projects) + 1, created_by_user_id |-> userId,
                           name |-> name, criteria |-> criteria])
    /\ UNCHANGED <<projectCvs, run, upd, cvRet, cvsTable, calc, upload, rerun, calls>>

(***************************************************************************)
(* createProjectCV                                                         *)
(***************************************************************************)
NewProjectCV(id, pid) ==
    [id |-> id, project_id |-> pid, parsed_data |-> Null, score |-> Null, ranking |-> Null]

\* One call: the project select, the count select and the insert.  cap bounds
\* the size of the table in the model; a call that would insert beyond it is
\* not taken.
createProjectCV(pid, cap) ==
    /\ IF SelectById(projects, pid) = {}
       THEN /\ cvRet' = Some([project_id |-> pid, error |-> Some("not found")])
            /\ UNCHANGED projectCvs
       ELSE IF Cardinality(CvsOfProject(projectCvs, pid)) >= MaxCvsPerProject
       THEN /\ cvRet' = Some([project_id |-> pid, error |-> Some("maximum limit")])
            /\ UNCHANGED projectCvs
       ELSE /\ Len(projectCvs) < cap
            /\ projectCvs' = Append(projectCvs, NewProjectCV(Len(projectCvs) + 1, pid))
            /\ cvRet' = Some([project_id |-> pid, error |-> Null])
    /\ UNCHANGED <<projects, run, upd, cvsTable, calc>>

\* a call made through the createProjectCV route
CreateProjectCV(pid) == createProjectCV(pid, MaxRows) /\ UNCHANGED <<upload, rerun, calls>>

(***************************************************************************)
(* The external parser's result stored on a project CV: parsed_data goes   *)
(* from null to a document, once.                                          *)
(***************************************************************************)
StoreParsedData(id, data) ==
    /\ id \in 1..Len(projectCvs)
    /\ projectCvs[id].parsed_data = Null
    /\ projectCvs' = [projectCvs EXCEPT ![id].parsed_data = Some(data)]
    /\ UNCHANGED <<projects, run, upd, cvRet, cvsTable, calc, upload, rerun, calls>>


(***************************************************************************)
(* updateSearchProject: the existence check, the update of the project     *)
(* row and the reset of the project's CVs are three statements, each       *)
(* awaited, outside any transaction.                                       *)
(***************************************************************************)
\* description and status are optional fields handled as name is
UpdateInputs ==
    [id       : ProjectIdInputs,
     name     : {Null, Some("renamed")},
     criteria : {Null} \cup {Some(c) : c \in CriteriaInputs}]

\* updateData applied by db.update(searchProjectsTable).set(updateData)
UpdateData(project, input) ==
    [project EXCEPT
        !.name     = IF input.name # Null THEN input.name[1] ELSE @,
        !.criteria = IF input.criteria # Null THEN input.criteria[1] ELSE @]

\* Variant: the CVs are reset on every update.
CriteriaUpdated_Always(input) == TRUE

\* if (input.criteria !== undefined)
CriteriaUpdated(input) == input.criteria # Null

\* Variant: the reset clears the score and leaves the ranking.
ResetCv_ScoreOnly(cv) == [cv EXCEPT !.score = Null]

\* .set({ score: null, ranking: null, updated_at }) on one row
ResetCv(cv) == [cv EXCEPT !.score = Null, !.ranking = Null]

\* Variant: the reset has no where clause.
ResetProjectCvs_AllProjects(rows, pid) == [i \in 1..Len(rows) |-> ResetCv(rows[i])]

\* db.update(projectCvsTable).set(...).where(eq(project_id, id))
ResetProjectCvs(rows, pid) ==
    [i \in 1..Len(rows) |-> IF rows[i].project_id = pid THEN ResetCv(rows[i]) ELSE rows[i]]

\* A call for a project that does not exist throws 'Search project not found'
\* after the select and leaves every table as it was.
updateSearchProject(input) ==
    /\ upd.pc = "idle"
    /\ SelectById(projects, input.id) # {}
    /\ upd' = [pc |-> "update", input |-> Some(input)]
    /\ UNCHANGED <<projects, projectCvs, run, cvRet, cvsTable, calc>>

\* a call made through the updateSearchProject route
UpdSelectProject(input) == updateSearchProject(input) /\ UNCHANGED <<upload, rerun, calls>>

UpdUpdateProject ==
    /\ upd.pc = "update"
    /\ LET input == upd.input[1]
       IN  /\ projects' = [i \in 1..Len(projects) |->
                              IF projects[i].id = input.id
                              THEN UpdateData(projects[i], input)
                              ELSE projects[i]]
           /\ upd' = IF CriteriaUpdated(input) THEN [upd EXCEPT !.pc = "reset"] ELSE IdleUpd
    /\ UNCHANGED <<projectCvs, run, cvRet, cvsTable, calc, upload, rerun, calls>>

UpdResetCvs ==
    /\ upd.pc = "reset"
    /\ projectCvs' = ResetProjectCvs(projectCvs, upd.input[1].id)
    /\ upd' = IdleUpd
    /\ UNCHANGED <<projects, run, cvRet, cvsTable, calc, upload, rerun, calls>>

(***************************************************************************)
(* runMatchingAlgorithm: select the project; select its CVs, score, sort   *)
(* and rank them; then one awaited update per result; return.              *)
(***************************************************************************)
\* the orders in which a select without ORDER BY may return the rows
SelectOrders(ids) ==
    {f \in [1..Cardinality(ids) -> ids] :
        \A i, j \in 1..Cardinality(ids) : i # j => f[i] # f[j]}

\* Variant: the embedded score is 0 whatever is stored.
ParseScore_Zero(score) == 0

\* parseFloat(cv.score || '0')
ParseScore(score) == IF score = Null THEN 0 ELSE score[1]

\* Variant: the loop does not skip a CV without parsed data and scores it
\* as a document whose every field is null.
EmptyParsed ==
    [total_years_experience |-> Null, job_changes_frequency |-> Null,
     roles_positions |-> Null, skills |-> Null, dominant_industries |-> Null]

RECURSIVE MatchLoop_NoSkip(_, _, _)
MatchLoop_NoSkip(cvs, criteria, k) ==
    IF k > Len(cvs) THEN <<>>
    ELSE <<[cv      |-> [cvs[k] EXCEPT !.score = ParseScore(@)],
            score   |-> FinalScore(criteria, IF cvs[k].parsed_data = Null THEN EmptyParsed
                                             ELSE cvs[k].parsed_data[1]),
            ranking |-> 0]>>
         \o MatchLoop_NoSkip(cvs, criteria, k + 1)

\* the loop over projectCvs that builds results
RECURSIVE MatchLoop(_, _, _)
MatchLoop(cvs, criteria, k) ==
    IF k > Len(cvs) THEN <<>>
    ELSE IF cvs[k].parsed_data = Null
         THEN MatchLoop(cvs, criteria, k + 1)          \* continue
         ELSE <<[cv      |-> [cvs[k] EXCEPT !.score = ParseScore(@)],
                 score   |-> FinalScore(criteria, cvs[k].parsed_data[1]),
                 ranking |-> 0]>>
              \o MatchLoop(cvs, criteria, k + 1)

\* results.sort((a, b) => b.score - a.score), a stable sort: x goes after
\* every element whose score is not below its own
RECURSIVE InsertResult(_, _)
InsertResult(sorted, x) ==
    IF sorted = <<>> THEN <<x>>
    ELSE IF Head(sorted).score >= x.score
         THEN <<Head(sorted)>> \o InsertResult(Tail(sorted), x)
         ELSE <<x>> \o sorted

RECURSIVE SortDesc(_)
SortDesc(rs) ==
    IF rs = <<>> THEN <<>>
    ELSE InsertResult(SortDesc(SubSeq(rs, 1, Len(rs) - 1)), rs[Len(rs)])

\* A comparator result of NaN counts as 0: a NaN score compares equal to
\* every score.  Next to two different numbers that is not a consistent
\* comparator and the order after the sort is implementation-defined; next
\* to equal numbers only, every pair compares equal and the stable sort
\* leaves the order as it is.
SortOutcomes(rs) ==
    IF \A i \in 1..Len(rs) : rs[i].score # NaN
    THEN {SortDesc(rs)}
    ELSE IF \A i, j \in 1..Len(rs) :
                (rs[i].score # NaN /\ rs[j].score # NaN) => rs[i].score = rs[j].score
    THEN {rs}
    ELSE {[i \in 1..Len(rs) |-> rs[f[i]]] : f \in SelectOrders(1..Len(rs))}

\* results.forEach((result, index) => { result.ranking = index + 1 })
AssignRankings(rs) == [i \in 1..Len(rs) |-> [rs[i] EXCEPT !.ranking = i]]

\* Variant: the update sets the score and not the ranking.
WriteBack_ScoreOnly(cv, result) == [cv EXCEPT !.score = Some(result.score)]

\* Variant: the update sets the ranking only where none is stored yet.
WriteBack_FillRanking(cv, result) ==
    [cv EXCEPT !.score = Some(result.score),
               !.ranking = IF @ = Null THEN Some(result.ranking) ELSE @]

\* .set({ score: result.score.toString(), ranking: result.ranking, updated_at })
WriteBack(cv, result) ==
    [cv EXCEPT !.score = Some(result.score), !.ranking = Some(result.ranking)]

\* numeric(5, 2) holds |x| < 1000 (and NaN)
NumericOverflow(score) == score # NaN /\ score >= 100000

\* Variant: total_candidates counts the CVs read, not the CVs scored.
ReturnValue_CountsUploaded(project, projectCvs_, results) ==
    Some([project |-> project, results |-> results, total_candidates |-> Len(projectCvs_)])

\* return { project, results, total_candidates: results.length, processed_at }
ReturnValue(project, projectCvs_, results) ==
    Some([project |-> project, results |-> results, total_candidates |-> Len(results)])

RunCallable(r) == run[r].pc \in {"idle", "done", "failed"}

runMatchingAlgorithm(r, pid) ==
    /\ RunCallable(r)
    /\ LET found == SelectById(projects, pid)
       IN  run' = [run EXCEPT ![r] =
                IF found = {}
                THEN [IdleRun EXCEPT !.pc = "failed", !.project_id = pid,
                                     !.error = Some("not found")]
                ELSE [IdleRun EXCEPT !.pc = "selectCvs", !.project_id = pid,
                                     !.project = Some(projects[First(found)])]]
    /\ UNCHANGED <<projects, projectCvs, upd, cvRet, cvsTable, calc>>

\* a call made through the runMatchingAlgorithm route
RunSelectProject(r, pid) == runMatchingAlgorithm(r, pid) /\ UNCHANGED <<upload, rerun, calls>>

RunSelectCvs(r) ==
    /\ run[r].pc = "selectCvs"
    /\ \E order \in SelectOrders(CvsOfProject(projectCvs, run[r].project_id)) :
         LET cvs == [i \in 1..Len(order) |-> projectCvs[order[i]]]
         IN  \E sorted \in SortOutcomes(MatchLoop(cvs, run[r].project[1].criteria, 1)) :
               LET results == AssignRankings(sorted)
               IN  run' = [run EXCEPT ![r] =
                        IF results = <<>>
                        THEN [@ EXCEPT !.pc = "done", !.projectCvs = cvs,
                                       !.ret = ReturnValue(run[r].project[1], cvs, results)]
                        ELSE [@ EXCEPT !.pc = "update", !.projectCvs = cvs,
                                       !.results = results]]
    /\ UNCHANGED <<projects, projectCvs, upd, cvRet, cvsTable, calc, upload, rerun, calls>>

RunUpdateCv(r) ==
    /\ run[r].pc = "update"
    /\ LET result == run[r].results[run[r].written + 1]
           last   == run[r].written + 1 = Len(run[r].results)
       IN  IF NumericOverflow(result.score)
           THEN /\ run' = [run EXCEPT ![r].pc = "failed",
                                      ![r].error = Some("numeric field overflow")]
                /\ UNCHANGED projectCvs
           ELSE /\ projectCvs' = [projectCvs EXCEPT ![result.cv.id] = WriteBack(@, result)]
                /\ run' = [run EXCEPT
                             ![r].written = @ + 1,
                             ![r].pc  = IF last THEN "done" ELSE "update",
                             ![r].ret = IF last
                                        THEN ReturnValue(run[r].project[1],
                                                         run[r].projectCvs, run[r].results)
                                        ELSE Null]
    /\ UNCHANGED <<projects, upd, cvRet, cvsTable, calc, upload, rerun, calls>>

Next ==
    \/ \E u \in UserIdInputs, c \in CriteriaInputs : CreateSearchProject(u, "search", c)
    \/ \E p \in ProjectIdInputs : CreateProjectCV(p)
    \/ \E id \in 1..MaxRows, d \in ParsedInputs : StoreParsedData(id, d)
    \/ \E input \in UpdateInputs : UpdSelectProject(input)
    \/ UpdUpdateProject
    \/ UpdResetCvs
    \/ \E p \in ProjectIdInputs : RunSelectProject("A", p)
    \/ RunSelectCvs("A")
    \/ RunUpdateCv("A")

Spec == Init /\ [][Next]_vars


(***************************************************************************)
(* The same calls one at a time: a call starts only when no                *)
(* updateSearchProject and no runMatchingAlgorithm call is in progress.    *)
(***************************************************************************)
NoCallInProgress == upd.pc = "idle" /\ RunCallable("A")

NextSequential ==
    \/ /\ NoCallInProgress
       /\ \E u \in UserIdInputs, c \in CriteriaInputs : CreateSearchProject(u, "search", c)
    \/ /\ NoCallInProgress
       /\ \E p \in ProjectIdInputs : CreateProjectCV(p)
    \/ /\ NoCallInProgress
       /\ \E id \in 1..MaxRows, d \in ParsedInputs : StoreParsedData(id, d)
    \/ /\ NoCallInProgress
       /\ \E input \in UpdateInputs : UpdSelectProject(input)
    \/ UpdUpdateProject
    \/ UpdResetCvs
    \/ /\ NoCallInProgress
       /\ \E p \in ProjectIdInputs : RunSelectProject("A", p)
    \/ RunSelectCvs("A")
    \/ RunUpdateCv("A")

SpecSequential == Init /\ [][NextSequential]_vars


(***************************************************************************)
(* Two overlapping runMatchingAlgorithm calls on one project whose CVs     *)
(* are uploaded and parsed meanwhile.  The start is the state after        *)
(* createSearchProject(1, "search", CritA).                                *)
(***************************************************************************)
InitRace ==
    /\ projects = <<[id |-> 1, created_by_user_id |-> 1, name |-> "search",
                     criteria |-> CritA]>>
    /\ projectCvs = <<>>
    /\ run = [r \in Runners |-> IdleRun]
    /\ upd = IdleUpd
    /\ Idle

NextRace ==
    \/ CreateProjectCV(1)
    \/ \E id \in 1..MaxRows, d \in ParsedInputs : StoreParsedData(id, d)
    \/ \E r \in Runners : RunSelectProject(r, 1)
    \/ \E r \in Runners : RunSelectCvs(r)
    \/ \E r \in Runners : RunUpdateCv(r)

SpecRace == InitRace /\ [][NextRace]_vars


(***************************************************************************)
(* rerunMatchingWithNewWeights: updateSearchProject with criteria made of  *)
(* the new weights, awaited, then runMatchingAlgorithm, awaited.           *)
(***************************************************************************)
\* the criteria argument the route builds
RerunCriteria(newWeights) ==
    [minimum_years_experience |-> Null,
     target_role              |-> Null,
     required_skills          |-> <<>>,
     preferred_skills         |-> <<>>,
     target_industries        |-> <<>>,
     max_job_changes_per_year |-> Null,
     weights                  |-> newWeights]

\* A call for a project that does not exist throws in updateSearchProject
\* and leaves every table as it was.
RerunUpdate(pid, newWeights) ==
    /\ rerun.pc = "idle"
    /\ updateSearchProject([id |-> pid, name |-> Null,
                            criteria |-> Some(RerunCriteria(newWeights))])
    /\ rerun' = [pc |-> "update", project_id |-> pid]
    /\ UNCHANGED <<upload, calls>>

RerunMatch ==
    /\ rerun.pc = "update"
    /\ upd.pc = "idle"
    /\ runMatchingAlgorithm("A", rerun.project_id)
    /\ rerun' = [rerun EXCEPT !.pc = "match"]
    /\ UNCHANGED <<upload, calls>>

RerunReturn ==
    /\ rerun.pc = "match"
    /\ run["A"].pc \in {"done", "failed"}
    /\ rerun' = IdleRerun
    /\ UNCHANGED <<projects, projectCvs, run, upd, cvRet, cvsTable, calc, upload, calls>>

(***************************************************************************)
(* handleUploadCVs, the client's upload flow: one createProjectCV call per *)
(* file, awaited together; then, inside one try block, parseCVWithAI for   *)
(* each new CV in turn and runMatchingAlgorithm; the catch of that block   *)
(* logs the error.  The parser is external: a call returns or throws.  The *)
(* data it returns is not used by the flow.                                *)
(***************************************************************************)
\* files: the number of PDF files selected, 1..10; the model takes no more
\* than the table has room for
UploadStart(pid, files) ==
    /\ upload.pc \in {"idle", "done", "failed"}
    /\ Len(projectCvs) + files <= MaxRows
    /\ upload' = [IdleUpload EXCEPT !.pc = "create", !.project_id = pid, !.files = files]
    /\ UNCHANGED <<projects, projectCvs, run, upd, cvRet, cvsTable, calc, rerun, calls>>

\* one of the createProjectCV calls; a call that throws rejects Promise.all
\* and the flow ends in the outer catch
UploadCreateCV ==
    /\ upload.pc = "create"
    /\ createProjectCV(upload.project_id, MaxRows)
    /\ upload' = IF cvRet'[1].error # Null
                 THEN [upload EXCEPT !.pc = "failed"]
                 ELSE [upload EXCEPT
                         !.newCVs = Append(@, Len(projectCvs')),
                         !.pc = IF Len(upload.newCVs) + 1 = upload.files
                                THEN "parse" ELSE "create"]
    /\ UNCHANGED <<rerun, calls>>

\* await trpc.parseCVWithAI.mutate({ filePath: cv.file_path })
UploadParseCV(ok) ==
    /\ upload.pc = "parse"
    /\ upload' = IF ok
                 THEN [upload EXCEPT
                         !.parsed = @ + 1,
                         !.pc = IF upload.parsed + 1 = Len(upload.newCVs)
                                THEN "match" ELSE "parse"]
                 ELSE [upload EXCEPT !.parseError = TRUE, !.pc = "done"]
    /\ UNCHANGED <<projects, projectCvs, run, upd, cvRet, cvsTable, calc, rerun, calls>>

\* await trpc.runMatchingAlgorithm.mutate({ project_id: project.id })
UploadMatch ==
    /\ upload.pc = "match"
    /\ runMatchingAlgorithm("A", upload.project_id)
    /\ upload' = [upload EXCEPT !.pc = "awaitMatch", !.matched = TRUE]
    /\ UNCHANGED <<rerun, calls>>

UploadReturn ==
    /\ upload.pc = "awaitMatch"
    /\ run["A"].pc \in {"done", "failed"}
    /\ upload' = [upload EXCEPT !.pc = "done"]
    /\ UNCHANGED <<projects, projectCvs, run, upd, cvRet, cvsTable, calc, rerun, calls>>

NextUpload ==
    \/ \E files \in 1..MaxRows : UploadStart(1, files)
    \/ UploadCreateCV
    \/ \E ok \in BOOLEAN : UploadParseCV(ok)
    \/ UploadMatch
    \/ UploadReturn
    \/ \E id \in 1..MaxRows, d \in ParsedInputs : StoreParsedData(id, d)
    \/ RunSelectCvs("A")
    \/ RunUpdateCv("A")

SpecUpload == InitRace /\ [][NextUpload]_vars


(***************************************************************************)
(* The three ways criteria reach the search_projects table, with criteria  *)
(* whose weights do not sum to 100 among the inputs.                       *)
(***************************************************************************)
WeightsUpdateInputs ==
    [id       : ProjectIdInputs,
     name     : {Null},
     criteria : {Null, Some(CritB), Some(CritOver)}]

NextWeights ==
    \/ \E u \in UserIdInputs, c \in {CritA, CritOver} : CreateSearchProject(u, "search", c)
    \/ \E p \in ProjectIdInputs : CreateProjectCV(p)
    \/ \E id \in 1..MaxRows : StoreParsedData(id, ParsedSenior)
    \/ \E input \in WeightsUpdateInputs : UpdSelectProject(input)
    \/ UpdUpdateProject
    \/ UpdResetCvs
    \/ \E p \in ProjectIdInputs, w \in {CritB.weights, WeightsOver} : RerunUpdate(p, w)
    \/ RerunMatch
    \/ RerunReturn
    \/ RunSelectCvs("A")
    \/ RunUpdateCv("A")

SpecWeights == Init /\ [][NextWeights]_vars


(***************************************************************************)
(* The scoring of one CV against one criteria, as the loop of              *)
(* runMatchingAlgorithm does it for each CV with parsed data.              *)
(***************************************************************************)
InitScore ==
    /\ projects = <<>>
    /\ projectCvs = <<>>
    /\ run = [r \in Runners |-> IdleRun]
    /\ upd = IdleUpd
    /\ cvRet = Null
    /\ cvsTable = <<>>
    /\ upload = IdleUpload
    /\ rerun = IdleRerun
    /\ calls = [c \in Callers |-> IdleCall]
    /\ \E c \in ScoreCriteriaInputs, d \in ScoreParsedInputs :
           calc = [pc |-> "start", criteria |-> c, parsedData |-> d]

ScoreCv ==
    /\ calc.pc = "start"
    /\ calc' = [pc         |-> "scored",
                criteria   |-> calc.criteria,
                parsedData |-> calc.parsedData,
                scores     |-> DimensionScores(calc.criteria, calc.parsedData),
                finalScore |-> FinalScore(calc.criteria, calc.parsedData)]
    /\ UNCHANGED <<projects, projectCvs, run, upd, cvRet, cvsTable, upload, rerun, calls>>

NextScore == ScoreCv

SpecScore == InitScore /\ [][NextScore]_vars


(***************************************************************************)
(* Two projects with parsed CVs: runMatchingAlgorithm for project 1 and    *)
(* for project 2 overlap with each other and with updateSearchProject      *)
(* calls for either project.  The start is the state after two             *)
(* createSearchProject calls, three createProjectCV calls and the parser's *)
(* results.                                                                *)
(***************************************************************************)
InitFrame ==
    /\ projects = <<[id |-> 1, created_by_user_id |-> 1, name |-> "search", criteria |-> CritA],
                    [id |-> 2, created_by_user_id |-> 1, name |-> "search", criteria |-> CritB]>>
    /\ projectCvs =
         <<[NewProjectCV(1, 1) EXCEPT !.parsed_data = Some(ParsedSenior)],
           [NewProjectCV(2, 2) EXCEPT !.parsed_data = Some(ParsedSenior)],
           [NewProjectCV(3, 1) EXCEPT !.parsed_data = Some(ParsedJunior)]>>
    /\ run = [r \in Runners |-> IdleRun]
    /\ upd = IdleUpd
    /\ Idle

FrameUpdateInputs ==
    [id : {1, 2}, name : {Null}, criteria : {Null, Some(CritB)}]

NextFrame ==
    \/ RunSelectProject("A", 1)
    \/ RunSelectProject("B", 2)
    \/ \E r \in Runners : RunSelectCvs(r)
    \/ \E r \in Runners : RunUpdateCv(r)
    \/ \E input \in FrameUpdateInputs : UpdSelectProject(input)
    \/ UpdUpdateProject
    \/ UpdResetCvs

SpecFrame == InitFrame /\ [][NextFrame]_vars


(***************************************************************************)
(* createProjectCV, statement by statement: the project select, the count  *)
(* select and the insert are each awaited, outside any transaction.  The   *)
(* calls of one batch are started together (Promise.all) and overlap.  The *)
(* start is the state after createSearchProject and BatchStartRows         *)
(* createProjectCV calls.                                                  *)
(***************************************************************************)
CallCallable(c) == calls[c].pc \in {"idle", "done", "failed"}

CreateCvSelectProject(c, pid) ==
    /\ CallCallable(c)
    /\ calls' = [calls EXCEPT ![c] =
                    IF SelectById(projects, pid) = {}
                    THEN [pc |-> "failed", project_id |-> pid, error |-> "not found"]
                    ELSE [pc |-> "count", project_id |-> pid]]
    /\ UNCHANGED <<projects, projectCvs, run, upd, cvRet, cvsTable, calc, upload, rerun>>

CreateCvCount(c) ==
    /\ calls[c].pc = "count"
    /\ calls' = [calls EXCEPT ![c] =
                    IF Cardinality(CvsOfProject(projectCvs, calls[c].project_id))
                           >= MaxCvsPerProject
                    THEN [pc |-> "failed", project_id |-> calls[c].project_id,
                          error |-> "maximum limit"]
                    ELSE [pc |-> "insert", project_id |-> calls[c].project_id]]
    /\ UNCHANGED <<projects, projectCvs, run, upd, cvRet, cvsTable, calc, upload, rerun>>

CreateCvInsert(c) ==
    /\ calls[c].pc = "insert"
    /\ Len(projectCvs) < MaxBatchRows
    /\ projectCvs' = Append(projectCvs, NewProjectCV(Len(projectCvs) + 1, calls[c].project_id))
    /\ calls' = [calls EXCEPT ![c] = [pc |-> "done", project_id |-> calls[c].project_id]]
    /\ UNCHANGED <<projects, run, upd, cvRet, cvsTable, calc, upload, rerun>>

InitBatch ==
    /\ projects = <<[id |-> 1, created_by_user_id |-> 1, name |-> "search",
                     criteria |-> CritA]>>
    /\ projectCvs = [i \in 1..BatchStartRows |-> NewProjectCV(i, 1)]
    /\ run = [r \in Runners |-> IdleRun]
    /\ upd = IdleUpd
    /\ Idle

NextBatch ==
    \/ \E c \in Callers, pid \in ProjectIdInputs : CreateCvSelectProject(c, pid)
    \/ \E c \in Callers : CreateCvCount(c)
    \/ \E c \in Callers : CreateCvInsert(c)

SpecBatch == InitBatch /\ [][NextBatch]_vars


(***************************************************************************)
(* calculateSemanticSimilarity on a pair of strings.                       *)
(***************************************************************************)
sAbc == <<"a", " ", "b", " ", "c">>

sAbcd == <<"a", " ", "b", " ", "c", " ", "d">>

TextInputs ==
    {<<>>, <<" ">>, sJs, sJS, <<" ", "j", "s">>, sGo, sJsGo, <<"g", "o", " ", " ", "j", "s">>,
     sJsJs, sAbc, sAbcd}

InitSimilarity ==
    /\ projects = <<>>
    /\ projectCvs = <<>>
    /\ run = [r \in Runners |-> IdleRun]
    /\ upd = IdleUpd
    /\ cvRet = Null
    /\ cvsTable = <<>>
    /\ upload = IdleUpload
    /\ rerun = IdleRerun
    /\ calls = [c \in Callers |-> IdleCall]
    /\ \E t1 \in TextInputs, t2 \in TextInputs :
           calc = [pc |-> "start", text1 |-> t1, text2 |-> t2]

CompareTexts ==
    /\ calc.pc = "start"
    /\ calc' = [pc         |-> "compared",
                text1      |-> calc.text1,
                text2      |-> calc.text2,
                similarity |-> calculateSemanticSimilarity(calc.text1, calc.text2)]
    /\ UNCHANGED <<projects, projectCvs, run, upd, cvRet, cvsTable, upload, rerun, calls>>

NextSimilarity == CompareTexts

SpecSimilarity == InitSimilarity /\ [][NextSimilarity]_vars


(***************************************************************************)
(* calculateSkillsScore on the skills of one criteria and one CV.          *)
(***************************************************************************)
MaxSkills == 2

SkillInputs == {sJs, sJS, sAbc, sAbcd}

SkillLists == UNION {[1..n -> SkillInputs] : n \in 0..MaxSkills}

InitSkills ==
    /\ projects = <<>>
    /\ projectCvs = <<>>
    /\ run = [r \in Runners |-> IdleRun]
    /\ upd = IdleUpd
    /\ cvRet = Null
    /\ cvsTable = <<>>
    /\ upload = IdleUpload
    /\ rerun = IdleRerun
    /\ calls = [c \in Callers |-> IdleCall]
    /\ \E req \in SkillLists, pref \in SkillLists, cv \in SkillLists :
           calc = [pc |-> "start", requiredSkills |-> req, preferredSkills |-> pref,
                   cvSkills |-> cv]

ScoreSkills ==
    /\ calc.pc = "start"
    /\ calc' = [pc              |-> "scored",
                requiredSkills  |-> calc.requiredSkills,
                preferredSkills |-> calc.preferredSkills,
                cvSkills        |-> calc.cvSkills,
                skillsMatch     |-> calculateSkillsScore(calc.requiredSkills,
                                                         calc.preferredSkills,
                                                         calc.cvSkills)]
    /\ UNCHANGED <<projects, projectCvs, run, upd, cvRet, cvsTable, upload, rerun, calls>>

NextSkills == ScoreSkills

SpecSkills == InitSkills /\ [][NextSkills]_vars


(***************************************************************************)
(* runMatchingAlgorithm on a project whose CVs all have parsed data, equal *)
(* documents among them.  The start is the state after createSearchProject *)
(* with CritB, MaxTieRows createProjectCV calls and the parser's results.  *)
(* The select of the run returns the rows in any order, so the documents   *)
(* are laid out over the rows in one order only: graduates, then juniors,  *)
(* then seniors.                                                           *)
(***************************************************************************)
TieDocuments == <<ParsedGraduate, ParsedJunior, ParsedSenior>>

InitTie ==
    /\ projects = <<[id |-> 1, created_by_user_id |-> 1, name |-> "search",
                     criteria |-> CritB]>>
    /\ \E kind \in [1..MaxTieRows -> 1..Len(TieDocuments)] :
           /\ \A i \in 1..(MaxTieRows - 1) : kind[i] <= kind[i + 1]
           /\ projectCvs = [i \in 1..MaxTieRows |->
                               [NewProjectCV(i, 1) EXCEPT
                                   !.parsed_data = Some(TieDocuments[kind[i]])]]
    /\ run = [r \in Runners |-> IdleRun]
    /\ upd = IdleUpd
    /\ Idle

NextTie ==
    \/ RunSelectProject("A", 1)
    \/ RunSelectCvs("A")
    \/ RunUpdateCv("A")

SpecTie == InitTie /\ [][NextTie]_vars


(***************************************************************************)
(* createCV and updateCVStatus, one call at a time.                        *)
(***************************************************************************)
cvStatusSchema == {"ACTIVE", "INACTIVE"}

\* Variant: no CV is deactivated.
DeactivateCvs_None(rows, userId, exceptId) == rows

\* db.update(cvsTable).set({ status: 'INACTIVE' }) where user_id = userId
\* (and id <> exceptId; createCV has no such condition: exceptId = 0)
DeactivateCvs(rows, userId, exceptId) ==
    [i \in 1..Len(rows) |->
        IF rows[i].user_id = userId /\ rows[i].id # exceptId
        THEN [rows[i] EXCEPT !.status = "INACTIVE"]
        ELSE rows[i]]

\* the user select; the deactivation when status is ACTIVE; the insert
createCV(userId, status) ==
    /\ Len(cvsTable) < MaxCvRows
    /\ SelectById(usersTable, userId) # {}
    /\ LET rows == IF status = "ACTIVE" THEN DeactivateCvs(cvsTable, userId, 0)
                   ELSE cvsTable
       IN  cvsTable' = Append(rows, [id |-> Len(cvsTable) + 1, user_id |-> userId,
                                     status |-> status, parsed_data |-> Null])
    /\ UNCHANGED <<projects, projectCvs, run, upd, cvRet, calc, upload, rerun, calls>>

UpdateCvInputs ==
    [id          : 1..(MaxCvRows + 1),
     status      : {Null} \cup {Some(st) : st \in cvStatusSchema},
     parsed_data : {Null, Some(ParsedSenior)}]

\* the CV select; the deactivation of the user's other CVs when status is
\* ACTIVE; the update of the target CV with the fields provided
updateCVStatus(input) ==
    /\ SelectById(cvsTable, input.id) # {}
    /\ LET cv   == cvsTable[First(SelectById(cvsTable, input.id))]
           rows == IF input.status = Some("ACTIVE")
                   THEN DeactivateCvs(cvsTable, cv.user_id, input.id)
                   ELSE cvsTable
       IN  cvsTable' = [i \in 1..Len(rows) |->
                           IF rows[i].id = input.id
                           THEN [rows[i] EXCEPT
                                   !.status      = IF input.status # Null
                                                   THEN input.status[1] ELSE @,
                                   !.parsed_data = IF input.parsed_data # Null
                                                   THEN input.parsed_data ELSE @]
                           ELSE rows[i]]
    /\ UNCHANGED <<projects, projectCvs, run, upd, cvRet, calc, upload, rerun, calls>>

NextCv ==
    \/ \E u \in UserIdInputs, st \in cvStatusSchema : createCV(u, st)
    \/ \E input \in UpdateCvInputs : updateCVStatus(input)

SpecCv == Init /\ [][NextCv]_vars


(***************************************************************************)
(* createCV with status ACTIVE and updateCVStatus to ACTIVE, statement by  *)
(* statement: the select, the deactivation and the insert or update are    *)
(* each awaited, outside any transaction, and calls overlap.  The start is *)
(* the state after two createCV calls of user 2 with status INACTIVE.      *)
(***************************************************************************)
ActiveCvSelectUser(c, userId) ==
    /\ CallCallable(c)
    /\ calls' = [calls EXCEPT ![c] =
                    IF SelectById(usersTable, userId) = {}
                    THEN [pc |-> "failed", op |-> "createCV", error |-> "user does not exist"]
                    ELSE [pc |-> "deactivate", op |-> "createCV", user_id |-> userId,
                          id |-> 0]]
    /\ UNCHANGED <<projects, projectCvs, run, upd, cvRet, cvsTable, calc, upload, rerun>>

ActiveCvSelectCv(c, id) ==
    /\ CallCallable(c)
    /\ calls' = [calls EXCEPT ![c] =
                    IF SelectById(cvsTable, id) = {}
                    THEN [pc |-> "failed", op |-> "updateCVStatus", error |-> "not found"]
                    ELSE [pc |-> "deactivate", op |-> "updateCVStatus",
                          user_id |-> cvsTable[First(SelectById(cvsTable, id))].user_id,
                          id |-> id]]
    /\ UNCHANGED <<projects, projectCvs, run, upd, cvRet, cvsTable, calc, upload, rerun>>

ActiveCvDeactivate(c) ==
    /\ calls[c].pc = "deactivate"
    /\ cvsTable' = DeactivateCvs(cvsTable, calls[c].user_id, calls[c].id)
    /\ calls' = [calls EXCEPT ![c].pc = "write"]
    /\ UNCHANGED <<projects, projectCvs, run, upd, cvRet, calc, upload, rerun>>

ActiveCvWrite(c) ==
    /\ calls[c].pc = "write"
    /\ IF calls[c].op = "createCV"
       THEN /\ Len(cvsTable) < MaxCvRows
            /\ cvsTable' = Append(cvsTable, [id |-> Len(cvsTable) + 1,
                                             user_id |-> calls[c].user_id,
                                             status |-> "ACTIVE", parsed_data |-> Null])
       ELSE cvsTable' = [i \in 1..Len(cvsTable) |->
                            IF cvsTable[i].id = calls[c].id
                            THEN [cvsTable[i] EXCEPT !.status = "ACTIVE"]
                            ELSE cvsTable[i]]
    /\ calls' = [calls EXCEPT ![c].pc = "done"]
    /\ UNCHANGED <<projects, projectCvs, run, upd, cvRet, calc, upload, rerun>>

InitActive ==
    /\ projects = <<>>
    /\ projectCvs = <<>>
    /\ run = [r \in Runners |-> IdleRun]
    /\ upd = IdleUpd
    /\ cvRet = Null
    /\ cvsTable = <<[id |-> 1, user_id |-> 2, status |-> "INACTIVE", parsed_data |-> Null],
                    [id |-> 2, user_id |-> 2, status |-> "INACTIVE", parsed_data |-> Null]>>
    /\ calc = IdleCalc
    /\ upload = IdleUpload
    /\ rerun = IdleRerun
    /\ calls = [c \in Callers |-> IdleCall]

\* the two callers whose activations overlap
ActiveCallers == {"a", "b"}

NextActive ==
    \/ \E c \in ActiveCallers, u \in UserIdInputs : ActiveCvSelectUser(c, u)
    \/ \E c \in ActiveCallers, id \in 1..(MaxCvRows + 1) : ActiveCvSelectCv(c, id)
    \/ \E c \in ActiveCallers : ActiveCvDeactivate(c)
    \/ \E c \in ActiveCallers : ActiveCvWrite(c)

SpecActive == InitActive /\ [][NextActive]_vars


(***************************************************************************)
(* createProjectCV up to and beyond the per-project limit.  The start is   *)
(* the state after two createSearchProject calls.                          *)
(***************************************************************************)
InitLimit ==
    /\ projects = [i \in 1..2 |-> [id |-> i, created_by_user_id |-> 1, name |-> "search",
                                    criteria |-> CritA]]
    /\ projectCvs = <<>>
    /\ run = [r \in Runners |-> IdleRun]
    /\ upd = IdleUpd
    /\ Idle

\* the ids of the two projects and an id that is not stored
NextLimit ==
    \E pid \in 1..3 : createProjectCV(pid, MaxLimitRows) /\ UNCHANGED <<upload, rerun, calls>>

SpecLimit == InitLimit /\ [][NextLimit]_vars


(***************************************************************************)
(* Properties.                                                             *)
(***************************************************************************)
\* a >= b on JavaScript numbers: false as soon as one side is NaN
NumGeq(a, b) == a # NaN /\ b # NaN /\ a >= b

ParsedCount(cvs) == Cardinality({i \in 1..Len(cvs) : cvs[i].parsed_data # Null})

Scored(cv) == cv.score # Null

\* C1: the results a successful runMatchingAlgorithm call returns carry the
\* rankings 1..N exactly once each, N the number of the project's CVs with
\* parsed data, and the score at rank i is >= the score at rank i + 1.
C1_RankingConsistency ==
    \A r \in Runners :
        run[r].pc = "done" =>
            LET res == run[r].ret[1].results
                N   == ParsedCount(run[r].projectCvs)
            IN  /\ Len(res) = N
                /\ \A n \in 1..N : Cardinality({k \in 1..Len(res) : res[k].ranking = n}) = 1
                /\ \A a, b \in 1..Len(res) :
                       res[b].ranking = res[a].ranking + 1 => NumGeq(res[a].score, res[b].score)

\* C2: a project CV without parsed data has no score and no ranking, and no
\* result of a run, computed or returned, is about a CV that had no parsed
\* data when the run read it.
C2_UnparsedNeverScored ==
    /\ \A i \in 1..Len(projectCvs) :
           projectCvs[i].parsed_data = Null =>
               projectCvs[i].score = Null /\ projectCvs[i].ranking = Null
    /\ \A r \in Runners :
           /\ \A k \in 1..Len(run[r].results) : run[r].results[k].cv.parsed_data # Null
           /\ run[r].ret # Null =>
                  \A k \in 1..Len(run[r].ret[1].results) :
                      run[r].ret[1].results[k].cv.parsed_data # Null

\* C2 witness: a finished run read a parsed and an unparsed CV, wrote the
\* former, and the latter is still unparsed.
C2_Witness ==
    \E r \in Runners :
        /\ run[r].pc = "done"
        /\ run[r].written >= 1
        /\ \E i \in 1..Len(run[r].projectCvs) :
               /\ run[r].projectCvs[i].parsed_data = Null
               /\ projectCvs[run[r].projectCvs[i].id].parsed_data = Null

\* the step in which the updateSearchProject call in progress returns
UpdReturns == upd.pc # "idle" /\ upd'.pc = "idle"

\* C3: when an updateSearchProject call that carries criteria returns, every
\* CV of the project has score = null and ranking = null, and the step that
\* resets them leaves every parsed_data as it was.
C3_CriteriaUpdateResets ==
    [][(UpdReturns /\ upd.input[1].criteria # Null) =>
          /\ Len(projectCvs') = Len(projectCvs)
          /\ \A i \in 1..Len(projectCvs) :
                 /\ projectCvs'[i].parsed_data = projectCvs[i].parsed_data
                 /\ projectCvs[i].project_id = upd.input[1].id =>
                        projectCvs'[i].score = Null /\ projectCvs'[i].ranking = Null]_vars

\* C3 witness: a run has finished writing scores computed from criteria the
\* project no longer has, no update is in progress, and the CVs it scored
\* are unscored again.
C3_Witness ==
    /\ upd.pc = "idle"
    /\ \E r \in Runners :
           /\ run[r].pc = "done"
           /\ run[r].written >= 1
           /\ projects[run[r].project_id].criteria # run[r].project[1].criteria
           /\ \A k \in 1..Len(run[r].results) :
                  ~ Scored(projectCvs[run[r].results[k].cv.id])

\* C4: the steps of an updateSearchProject call without criteria leave every
\* project CV and the project's criteria as they were, and the call returns
\* right after the update of the project row.
C4_NonCriteriaUpdateFrame ==
    [][/\ (upd.pc = "idle" /\ upd'.pc # "idle") => UNCHANGED <<projects, projectCvs>>
       /\ (upd.pc = "update" /\ upd' # upd /\ upd.input[1].criteria = Null) =>
              /\ upd'.pc = "idle"
              /\ projectCvs' = projectCvs
              /\ projects'[upd.input[1].id].criteria = projects[upd.input[1].id].criteria]_vars

\* C4 witness: a call that renames the project and carries no criteria is in
\* progress while a CV of the project holds a score.
C4_Witness ==
    /\ upd.pc = "update"
    /\ upd.input[1].criteria = Null
    /\ upd.input[1].name # Null
    /\ \E i \in 1..Len(projectCvs) :
           projectCvs[i].project_id = upd.input[1].id /\ Scored(projectCvs[i])

\* C5: every project CV has score = null exactly when ranking = null.
C5_ScoreRankingPaired ==
    \A i \in 1..Len(projectCvs) :
        (projectCvs[i].score = Null) <=> (projectCvs[i].ranking = Null)

\* C5 witness: one CV holds a score and a ranking, another has parsed data
\* and neither.
C5_Witness ==
    \E i, j \in 1..Len(projectCvs) :
        /\ projectCvs[i].score # Null /\ projectCvs[i].ranking # Null
        /\ projectCvs[j].parsed_data # Null
        /\ projectCvs[j].score = Null /\ projectCvs[j].ranking = Null

\* no call is in progress
Quiescent == upd.pc = "idle" /\ \A r \in Runners : RunCallable(r)

\* C6: once an update of the criteria and a run that overlapped have both
\* finished, every stored score is the score of that CV under the criteria
\* the project now stores.
C6_NoStaleScores ==
    Quiescent =>
        \A i \in 1..Len(projectCvs) :
            Scored(projectCvs[i]) =>
                projectCvs[i].score =
                    Some(FinalScore(projects[projectCvs[i].project_id].criteria,
                                    projectCvs[i].parsed_data[1]))

\* C9: a runMatchingAlgorithm call for a project id that is not stored fails
\* with the not-found error in its first step, which changes no table; a
\* failed call has written nothing.
C9_NotFoundChangesNothing ==
    [][\A r \in Runners :
           /\ (RunCallable(r) /\ run'[r] # run[r]
                 /\ ~ \E i \in 1..Len(projects) : projects[i].id = run'[r].project_id) =>
                  /\ run'[r].pc = "failed"
                  /\ run'[r].error = Some("not found")
                  /\ UNCHANGED <<projects, projectCvs>>
           /\ (run'[r].pc = "failed" /\ run'[r].error = Some("not found")) =>
                  run'[r].written = 0 /\ run'[r].results = <<>>]_vars

\* C9 witness: a call has failed with not-found while a project with a scored
\* CV is stored.
C9_Witness ==
    /\ \E r \in Runners : run[r].pc = "failed" /\ run[r].error = Some("not found")
    /\ \E i \in 1..Len(projectCvs) : Scored(projectCvs[i])

\* C10: a finished run returns total_candidates = the length of results = the
\* number of CVs with parsed data among those it read; a run that read none
\* returns empty results without entering the write phase.
C10_TotalCandidates ==
    \A r \in Runners :
        /\ run[r].pc = "done" =>
               /\ run[r].ret[1].total_candidates = Len(run[r].ret[1].results)
               /\ Len(run[r].ret[1].results) = ParsedCount(run[r].projectCvs)
               /\ ParsedCount(run[r].projectCvs) = 0 =>
                      run[r].ret[1].results = <<>> /\ run[r].written = 0
        /\ run[r].pc = "update" => ParsedCount(run[r].projectCvs) > 0

\* C10 witness: a run on a project whose CVs are all unparsed has returned
\* total_candidates = 0.
C10_Witness ==
    \E r \in Runners :
        /\ run[r].pc = "done"
        /\ Len(run[r].projectCvs) >= 1
        /\ run[r].ret[1].total_candidates = 0

\* C7: after two overlapping runs of one project have both finished, the
\* stored scores and rankings are those of one of the two runs, and the
\* stored rankings are pairwise distinct.
C7_OneRunWins ==
    (\A r \in Runners : run[r].pc = "done") =>
        /\ \E r \in Runners :
               \A i \in 1..Len(projectCvs) :
                   Scored(projectCvs[i]) =>
                       \E k \in 1..Len(run[r].results) :
                           /\ run[r].results[k].cv.id = i
                           /\ projectCvs[i].score = Some(run[r].results[k].score)
                           /\ projectCvs[i].ranking = Some(run[r].results[k].ranking)
        /\ \A i, j \in 1..Len(projectCvs) :
               (i # j /\ Scored(projectCvs[i]) /\ Scored(projectCvs[j])) =>
                   projectCvs[i].ranking # projectCvs[j].ranking

\* C8: every write of a run leaves on the row it writes the score and the
\* ranking of that run's own result for that CV, whatever the row held
\* before; and every step that changes the stored (score, ranking) of a
\* project CV sets it to (null, null) or to the score and the ranking of one
\* result of one run for that CV.
C8_PairFromOneRun ==
    [][/\ \A r \in Runners :
              run'[r].written = run[r].written + 1 =>
                  LET result == run[r].results[run'[r].written]
                  IN  /\ projectCvs'[result.cv.id].score = Some(result.score)
                      /\ projectCvs'[result.cv.id].ranking = Some(result.ranking)
       /\ \A i \in 1..Len(projectCvs) :
              (projectCvs'[i].score # projectCvs[i].score
                 \/ projectCvs'[i].ranking # projectCvs[i].ranking) =>
                  \/ projectCvs'[i].score = Null /\ projectCvs'[i].ranking = Null
                  \/ \E r \in Runners : \E k \in 1..Len(run[r].results) :
                         /\ run[r].results[k].cv.id = i
                         /\ projectCvs'[i].score = Some(run[r].results[k].score)
                         /\ projectCvs'[i].ranking = Some(run[r].results[k].ranking)]_vars

\* C8 witness: two runs computed different (score, ranking) pairs for one CV
\* and the CV stores the pair of one of them.
C8_Witness ==
    \E i \in 1..Len(projectCvs) : \E k \in 1..Len(run["A"].results) :
        \E m \in 1..Len(run["B"].results) :
            /\ run["A"].results[k].cv.id = i
            /\ run["B"].results[m].cv.id = i
            /\ run["A"].results[k].ranking # run["B"].results[m].ranking
            /\ run["B"].written >= 1
            /\ projectCvs[i].score = Some(run["A"].results[k].score)
            /\ projectCvs[i].ranking = Some(run["A"].results[k].ranking)

\* the second of two runs in succession: r2 read every CV r1 had read, with
\* the same parsed data, holding the score and the ranking r1 stored
InSuccession(r1, r2) ==
    /\ run[r1].pc = "done" /\ run[r2].pc = "done"
    /\ Len(run[r2].projectCvs) = Len(run[r1].projectCvs)
    /\ \A i \in 1..Len(run[r2].projectCvs) :
           LET row == run[r2].projectCvs[i]
           IN  /\ \E j \in 1..Len(run[r1].projectCvs) :
                      /\ run[r1].projectCvs[j].id = row.id
                      /\ run[r1].projectCvs[j].parsed_data = row.parsed_data
               /\ row.parsed_data # Null =>
                      \E k \in 1..Len(run[r1].results) :
                          /\ run[r1].results[k].cv.id = row.id
                          /\ row.score = Some(run[r1].results[k].score)
                          /\ row.ranking = Some(run[r1].results[k].ranking)

\* C11: of two runs of one project in succession with no change of the
\* criteria or of any parsed data in between, the second computes, returns
\* and stores for every CV the score and the ranking the first did.
C11_RerunIdentical ==
    \A r1, r2 \in Runners :
        (r1 # r2 /\ InSuccession(r1, r2)) =>
            \A k \in 1..Len(run[r1].results) :
                \E m \in 1..Len(run[r2].ret[1].results) :
                    LET first  == run[r1].results[k]
                        second == run[r2].ret[1].results[m]
                    IN  /\ second.cv.id = first.cv.id
                        /\ second.score = first.score
                        /\ second.ranking = first.ranking
                        /\ projectCvs[first.cv.id].score = Some(first.score)
                        /\ projectCvs[first.cv.id].ranking = Some(first.ranking)

\* the number of project CVs of project pid in rows
CountOf(rows, pid) == Cardinality({i \in 1..Len(rows) : rows[i].project_id = pid})

\* C12: a createProjectCV call for a stored project that has 10 project CVs
\* fails with the maximum-limit error and leaves the table as it was; a call
\* for a stored project that has fewer succeeds and appends one row of that
\* project, however many rows other projects have.
C12_LimitPerProject ==
    [][(cvRet' # cvRet \/ projectCvs' # projectCvs) =>
          LET pid == cvRet'[1].project_id
          IN  (\E i \in 1..Len(projects) : projects[i].id = pid) =>
                  IF CountOf(projectCvs, pid) >= 10
                  THEN /\ cvRet'[1].error = Some("maximum limit")
                       /\ projectCvs' = projectCvs
                  ELSE /\ cvRet'[1].error = Null
                       /\ Len(projectCvs') = Len(projectCvs) + 1
                       /\ SubSeq(projectCvs', 1, Len(projectCvs)) = projectCvs
                       /\ projectCvs'[Len(projectCvs')].project_id = pid]_vars

\* C12 witness: project 1 holds 10 project CVs and the last call, for project
\* 1, failed with the maximum-limit error, while project 2 holds a row
\* inserted after project 1 was full.
C12_Witness ==
    /\ cvRet = Some([project_id |-> 1, error |-> Some("maximum limit")])
    /\ CountOf(projectCvs, 1) = 10
    /\ \E j \in 1..Len(projectCvs) :
           /\ projectCvs[j].project_id = 2
           /\ CountOf(SubSeq(projectCvs, 1, j - 1), 1) = 10

\* C13: the five weights of every stored project's criteria sum to 100.
C13_WeightsSumTo100 ==
    \A i \in 1..Len(projects) :
        LET w == projects[i].criteria.weights
        IN  w.years_experience + w.role_match + w.skills_match
                + w.industry_match + w.job_stability = 100

\* the ids of the CVs of user u that are ACTIVE in rows
ActiveOf(rows, u) == {i \in 1..Len(rows) : rows[i].user_id = u /\ rows[i].status = "ACTIVE"}

\* C14: every user has at most one ACTIVE CV; and a step that makes a CV
\* ACTIVE (created ACTIVE, or set to ACTIVE) leaves every other CV of its
\* user INACTIVE.
C14_OneActivePerUser ==
    /\ [](\A i, j \in 1..Len(cvsTable) :
            (cvsTable[i].user_id = cvsTable[j].user_id
               /\ cvsTable[i].status = "ACTIVE" /\ cvsTable[j].status = "ACTIVE") => i = j)
    /\ [][\A i \in 1..Len(cvsTable') :
             (cvsTable'[i].status = "ACTIVE"
                /\ (i > Len(cvsTable) \/ cvsTable[i].status # "ACTIVE")) =>
                 \A j \in 1..Len(cvsTable') :
                     (j # i /\ cvsTable'[j].user_id = cvsTable'[i].user_id) =>
                         cvsTable'[j].status = "INACTIVE"]_vars

\* C14 witness: a user holds three CVs of which exactly one, not the last
\* created, is ACTIVE, and another user holds an ACTIVE CV as well.
C14_Witness ==
    \E u, v \in 1..Len(usersTable) :
        /\ u # v
        /\ Cardinality({i \in 1..Len(cvsTable) : cvsTable[i].user_id = u}) = 3
        /\ Cardinality(ActiveOf(cvsTable, u)) = 1
        /\ \E i, j \in 1..Len(cvsTable) :
               i < j /\ i \in ActiveOf(cvsTable, u) /\ cvsTable[j].user_id = u
        /\ ActiveOf(cvsTable, v) # {}

\* 0 <= x <= 100 for a JavaScript number x (false for NaN)
InPercentRange(x) == x[2] > 0 /\ x[1] >= 0 /\ x[1] <= 100 * x[2]

\* C15: each of the five dimension scores of a scored CV lies in [0, 100],
\* and so does its final score.
C15_ScoresInRange ==
    calc.pc = "scored" =>
        /\ InPercentRange(calc.scores.experienceScore)
        /\ InPercentRange(calc.scores.roleMatch.score)
        /\ InPercentRange(calc.scores.skillsMatch.score)
        /\ InPercentRange(calc.scores.industryMatch.score)
        /\ InPercentRange(calc.scores.jobStabilityScore)
        /\ calc.finalScore # NaN /\ calc.finalScore >= 0 /\ calc.finalScore <= 10000

\* x <= y on JavaScript numbers: false as soon as one side is NaN
NumLeq(x, y) == x[2] > 0 /\ y[2] > 0 /\ x[1] * y[2] <= y[1] * x[2]

\* C16: with the required years fixed and not null, the experience score of
\* a candidate is at most the experience score of any candidate with as
\* many years or more.
C16_ExperienceMonotone ==
    (calc.pc = "scored" /\ calc.criteria.minimum_years_experience # Null
       /\ calc.parsedData.total_years_experience # Null) =>
        \A actual2 \in calc.parsedData.total_years_experience[1]..MaxYears :
            NumLeq(calc.scores.experienceScore,
                   calculateExperienceScore(Some(actual2),
                                            calc.criteria.minimum_years_experience))

\* C17: where the criteria's minimum years are 0 and the candidate's years
\* are not null, the experience score of every result of a run is a number
\* in [80, 100] and the result's score is a number; and every stored score
\* is a number.
C17_ZeroRequirementDefined ==
    /\ \A r \in Runners : \A k \in 1..Len(run[r].results) :
           LET criteria   == run[r].project[1].criteria
               parsedData == run[r].results[k].cv.parsed_data[1]
               experience == calculateExperienceScore(parsedData.total_years_experience,
                                                      criteria.minimum_years_experience)
           IN  (criteria.minimum_years_experience = Some(0)
                  /\ parsedData.total_years_experience # Null) =>
                   /\ NumLeq(<<80, 1>>, experience) /\ NumLeq(experience, <<100, 1>>)
                   /\ run[r].results[k].score # NaN
    /\ \A i \in 1..Len(projectCvs) :
           projectCvs[i].score # Null => projectCvs[i].score[1] # NaN

\* C18: the job stability score is 50 when either input is null, 100 when
\* actual <= max, max(0, 100 - 50 * (actual - max) / max) when actual > max
\* > 0, and a number in [0, 100) when max = 0 < actual.
C18_JobStabilityFormula ==
    calc.pc = "scored" =>
        LET actual == calc.parsedData.job_changes_frequency
            max    == calc.criteria.max_job_changes_per_year
            out    == calc.scores.jobStabilityScore
        IN  /\ out[2] > 0
            /\ (actual = Null \/ max = Null) => out[1] = 50 * out[2]
            /\ (actual # Null /\ max # Null) =>
                   LET a == actual[1]
                       m == max[1]
                       penalised == 100 * m - 50 * (a - m)
                   IN  /\ a <= m => out[1] = 100 * out[2]
                       /\ (a > m /\ m > 0) =>
                              out[1] * m = out[2] * (IF penalised > 0 THEN penalised ELSE 0)
                       /\ (a > m /\ m = 0) => (out[1] >= 0 /\ out[1] < 100 * out[2])

\* C18 witness: a CV with job changes was scored against criteria allowing
\* none, and its job stability score is 0.
C18_Witness ==
    /\ calc.pc = "scored"
    /\ calc.criteria.max_job_changes_per_year = Some(0)
    /\ calc.parsedData.job_changes_frequency # Null
    /\ calc.parsedData.job_changes_frequency[1] > 0
    /\ calc.scores.jobStabilityScore = <<0, 1>>

\* C19: an upload flow that has ended after creating its project CVs has
\* invoked runMatchingAlgorithm, also when a parse failed, and the run has
\* a result for every CV it read with parsed data.
C19_ParseFailureStillMatches ==
    upload.pc = "done" =>
        /\ upload.matched
        /\ \A i \in 1..Len(run["A"].projectCvs) :
               run["A"].projectCvs[i].parsed_data # Null =>
                   \E k \in 1..Len(run["A"].results) :
                       run["A"].results[k].cv.id = run["A"].projectCvs[i].id

\* the position of the CV with the given id in the order the run read the
\* project's CVs in
IterationIndex(r, id) ==
    CHOOSE i \in 1..Len(run[r].projectCvs) : run[r].projectCvs[i].id = id

\* C20: of two CVs with equal scores in one run, the one the run iterated
\* first has the smaller ranking.
C20_TiesKeepIterationOrder ==
    \A r \in Runners : \A k, m \in 1..Len(run[r].results) :
        LET a == run[r].results[k]
            b == run[r].results[m]
        IN  (a.score # NaN /\ a.score = b.score
               /\ IterationIndex(r, a.cv.id) < IterationIndex(r, b.cv.id)) =>
                a.ranking < b.ranking

\* C22: calculateSemanticSimilarity returns a number from 0 to 1: 0 when a
\* string is empty, 1 when the strings are equal after lower-casing and
\* trimming, and never more than 1, also when a string repeats a word.
C22_SimilarityInUnitRange ==
    calc.pc = "compared" =>
        LET x == calc.similarity
        IN  /\ x[2] > 0 /\ x[1] >= 0 /\ x[1] <= x[2]
            /\ (calc.text1 = <<>> \/ calc.text2 = <<>>) => x[1] = 0
            /\ (calc.text1 # <<>> /\ calc.text2 # <<>>
                  /\ normalize(calc.text1) = normalize(calc.text2)) => RIsOne(x)

\* equal numbers
NumEq(x, y) == x[2] > 0 /\ y[2] > 0 /\ x[1] * y[2] = y[1] * x[2]

\* C21: naming a skill of required_skills or of preferred_skills once more,
\* all else equal, does not change the score of calculateSkillsScore.
C21_SkillsAsSets ==
    calc.pc = "scored" =>
        /\ \A s \in Range(calc.requiredSkills) :
               NumEq(calculateSkillsScore(Append(calc.requiredSkills, s),
                                          calc.preferredSkills, calc.cvSkills).score,
                     calc.skillsMatch.score)
        /\ \A s \in Range(calc.preferredSkills) :
               NumEq(calculateSkillsScore(calc.requiredSkills,
                                          Append(calc.preferredSkills, s), calc.cvSkills).score,
                     calc.skillsMatch.score)

\* the best similarity of a target skill over the candidate's skills
BestSimilarity(skill, cvSkills) ==
    IF cvSkills = <<>> THEN <<0, 1>>
    ELSE LET sims == {calculateSemanticSimilarity(skill, cvSkills[j]) : j \in 1..Len(cvSkills)}
         IN  CHOOSE x \in sims : \A y \in sims : ~ RLess(x, y)

\* what a target skill of the given weight is awarded, by its best similarity
Awarded(skill, weight, cvSkills) ==
    LET best == BestSimilarity(skill, cvSkills)
    IN  IF RIsOne(best) THEN <<weight, 1>>
        ELSE IF RAboveTenths(best, 7) /\ RLess(best, <<1, 1>>) THEN RMulInt(weight, best)
        ELSE <<0, 1>>

RECURSIVE SumAwarded(_, _, _)
SumAwarded(skills, weight, cvSkills) ==
    IF skills = <<>> THEN <<0, 1>>
    ELSE RAdd(Awarded(Head(skills), weight, cvSkills),
              SumAwarded(Tail(skills), weight, cvSkills))

\* the entries of semantic_matches recorded for a target skill
SemanticEntries(matches, skill) == {i \in 1..Len(matches) : matches[i][1] = skill}

\* how often a skill is named among the target skills
TimesNamed(skill) ==
    Cardinality({i \in 1..Len(calc.requiredSkills) : calc.requiredSkills[i] = skill})
      + Cardinality({i \in 1..Len(calc.preferredSkills) : calc.preferredSkills[i] = skill})

\* C23: each target skill has the one outcome its best similarity over the
\* candidate's skills decides: at 1.0 the full weight and a record as exact
\* match only, between 0.7 and 1.0 best * weight and one semantic match,
\* otherwise no award and no record; the score is 100 * awarded / weights,
\* 0 without target skills.
C23_OneOutcomePerTargetSkill ==
    calc.pc = "scored" =>
        LET m       == calc.skillsMatch
            weights == 2 * Len(calc.requiredSkills) + Len(calc.preferredSkills)
            awarded == RAdd(SumAwarded(calc.requiredSkills, 2, calc.cvSkills),
                            SumAwarded(calc.preferredSkills, 1, calc.cvSkills))
        IN  /\ NumEq(m.score, IF weights = 0 THEN <<0, 1>>
                                            ELSE RMulInt(100, RDivInt(awarded, weights)))
            /\ \A t \in Range(calc.requiredSkills) \cup Range(calc.preferredSkills) :
                   LET best == BestSimilarity(t, calc.cvSkills)
                   IN  IF RIsOne(best)
                       THEN /\ t \in Range(m.exact_matches)
                            /\ SemanticEntries(m.semantic_matches, t) = {}
                       ELSE IF RAboveTenths(best, 7) /\ RLess(best, <<1, 1>>)
                       THEN /\ t \notin Range(m.exact_matches)
                            /\ SemanticEntries(m.semantic_matches, t) # {}
                            /\ TimesNamed(t) = 1 =>
                                   Cardinality(SemanticEntries(m.semantic_matches, t)) = 1
                       ELSE /\ t \notin Range(m.exact_matches)
                            /\ SemanticEntries(m.semantic_matches, t) = {}

\* C24: a step changes a project CV only when it is a write of a
\* runMatchingAlgorithm call for that CV's project or the reset of an
\* updateSearchProject call for that CV's project: score, ranking and
\* parsed_data of the CVs of every other project stay as they are.
C24_OtherProjectsUntouched ==
    [][\A i \in 1..Len(projectCvs) :
          projectCvs'[i] # projectCvs[i] =>
              \/ \E r \in Runners : /\ run[r].pc = "update"
                                     /\ run'[r] # run[r]
                                     /\ run[r].project_id = projectCvs[i].project_id
              \/ /\ upd.pc = "reset"
                 /\ upd' # upd
                 /\ upd.input[1].id = projectCvs[i].project_id]_vars

\* The CVs of project 1 were scored and then reset by an update of project
\* 1, and the CVs of project 2 still carry the scores of their run.
C24_Witness ==
    /\ run["A"].pc = "done" /\ run["B"].pc = "done" /\ upd.pc = "idle"
    /\ \A i \in 1..Len(projectCvs) :
           IF projectCvs[i].project_id = 1
           THEN projectCvs[i].score = Null /\ projectCvs[i].ranking = Null
           ELSE projectCvs[i].score # Null /\ projectCvs[i].ranking # Null

\* C25: with createProjectCV calls for one project overlapping, the project
\* never has more than 10 project CVs.
C25_LimitUnderConcurrency ==
    \A pid \in ProjectIdInputs : CountOf(projectCvs, pid) <= 10

\* C26: once the overlapping activations (createCV with status ACTIVE,
\* updateCVStatus to ACTIVE) have all finished, every user has at most one
\* ACTIVE CV.
C26_OneActiveAfterOverlap ==
    (\A c \in Callers : CallCallable(c)) =>
        \A u \in UserIdInputs : Cardinality(ActiveOf(cvsTable, u)) <= 1

\* the criteria apart from the weights
NonWeights(criteria) ==
    <<criteria.minimum_years_experience, criteria.target_role, criteria.required_skills,
      criteria.preferred_skills, criteria.target_industries,
      criteria.max_job_changes_per_year>>

\* C27: the update of rerunMatchingWithNewWeights sets the weights of the
\* project's criteria to the new weights and leaves the other criteria of
\* every project as they were.
C27_RerunChangesWeightsOnly ==
    [][(/\ rerun.pc = "update"
        /\ upd.pc = "update"
        /\ upd.input[1].criteria = Some(RerunCriteria(upd.input[1].criteria[1].weights))
        /\ projects' # projects) =>
           \A i \in 1..Len(projects) :
               /\ NonWeights(projects'[i].criteria) = NonWeights(projects[i].criteria)
               /\ projects[i].id = upd.input[1].id =>
                      projects'[i].criteria.weights = upd.input[1].criteria[1].weights]_vars

\* C28: when the upload flow has finished without error, every CV it
\* uploaded and parsed has stored parsed_data, a score and a ranking.
C28_ParsedCvIsScored ==
    (/\ upload.pc = "done"
     /\ ~ upload.parseError
     /\ upload.matched
     /\ run["A"].pc = "done") =>
        \A k \in 1..Len(upload.newCVs) :
            LET cv == projectCvs[upload.newCVs[k]]
            IN  cv.parsed_data # Null /\ cv.score # Null /\ cv.ranking # Null

\* the row with the given id as the run read it
RowRead(r, id) == run[r].projectCvs[IterationIndex(r, id)]

\* C29: the cv record embedded in a result carries the score and ranking
\* stored when the run read the CV (score 0 for a null score, ranking as
\* stored, null included); the values the run computes are in the result's
\* own score and ranking only.
C29_EmbeddedCvIsAsRead ==
    \A r \in Runners : \A k \in 1..Len(run[r].results) :
        LET result == run[r].results[k]
            row    == RowRead(r, result.cv.id)
        IN  /\ result.cv.score = (IF row.score = Null THEN 0 ELSE row.score[1])
            /\ result.cv.ranking = row.ranking
            /\ result.cv.parsed_data = row.parsed_data
            /\ result.cv.project_id = row.project_id
            /\ result.ranking = k

\* A finished run on CVs without stored scores: the embedded score is 0 and
\* the embedded ranking null while the result and the table carry the new
\* score and ranking.
C29_Witness ==
    /\ run["A"].pc = "done"
    /\ \E k \in 1..Len(run["A"].results) :
          LET result == run["A"].results[k]
          IN  /\ result.cv.score = 0 /\ result.cv.ranking = Null
              /\ result.score > 0 /\ result.ranking = k
              /\ projectCvs[result.cv.id].score = Some(result.score)
              /\ projectCvs[result.cv.id].ranking = Some(k)

\* the project CVs of a project that have a ranking, and those with a score
RankedOf(pid) == {i \in CvsOfProject(projectCvs, pid) : projectCvs[i].ranking # Null}

ScoredOf(pid) == {i \in CvsOfProject(projectCvs, pid) : projectCvs[i].score # Null}

\* C30: with no call in progress, the stored rankings of each project's CVs
\* are pairwise distinct and are exactly 1..k for its k scored CVs, every
\* scored CV has parsed data, and stored scores do not increase with the
\* stored ranking.
C30_RankingsAreOneToK ==
    Quiescent =>
        \A pid \in ProjectIdInputs :
            /\ \A i, j \in RankedOf(pid) :
                   i # j => projectCvs[i].ranking # projectCvs[j].ranking
            /\ {projectCvs[i].ranking[1] : i \in RankedOf(pid)}
                   = 1..Cardinality(ScoredOf(pid))
            /\ \A i \in ScoredOf(pid) : projectCvs[i].parsed_data # Null
            /\ \A i, j \in RankedOf(pid) \cap ScoredOf(pid) :
                   projectCvs[i].ranking[1] < projectCvs[j].ranking[1] =>
                       NumGeq(projectCvs[i].score[1], projectCvs[j].score[1])

=============================================================================
